---- MODULE Spec2Model ----
(***************************************************************************)
(* File-based rendezvous of hymm_sp/gradio/api_server.py: the Flask        *)
(* handler generate_next publishes a trigger file, polls for the result    *)
(* file the worker writes, consumes it and advances the index kept in the  *)
(* state file.  Every file-system call of the handler is one step, so the  *)
(* worker (and, in SpecConc, a second handler thread) interleaves with it. *)
(***************************************************************************)
EXTENDS Integers, Sequences, FiniteSets, TLC

\* ---------------------------------------------------------------- bounds
TotalSamples == 2      \* value returned by get_total_samples (1000 in the source)
MaxWait == 2           \* MAX_WAIT_TIME, in seconds (30000 in the source)

\* ------------------------------------------------------------- constants
CHECK_INTERVAL == 1
MAX_WAIT_TIME == MaxWait
get_total_samples == TotalSamples
required_fields == {}

Reqs == {1, 2}                       \* handler threads of the Flask server
MainThread == 1
CUSTOM == 0 - 1                      \* current_index of a custom generation
NoIndex == 0 - 2                     \* current_index not assigned yet

\* ------------------------------------------------------- text of a number
Digits == <<"0", "1", "2", "3", "4", "5", "6", "7", "8", "9">>

RECURSIVE str(_)
\* str(new_index): the decimal text of a non-negative integer
str(n) == IF n < 10 THEN <<Digits[n + 1]>>
          ELSE str(n \div 10) \o <<Digits[(n % 10) + 1]>>

DigitVal(c) == (CHOOSE k \in 1..10 : Digits[k] = c) - 1

IsNumber(s) == Len(s) > 0 /\ \A k \in 1..Len(s) : \E d \in 1..10 : Digits[d] = s[k]

RECURSIVE int(_)
\* int(text) of a text for which IsNumber holds
int(s) == IF Len(s) = 1 THEN DigitVal(s[1])
          ELSE 10 * int(SubSeq(s, 1, Len(s) - 1)) + DigitVal(s[Len(s)])

\* get_current_index: 0 when the text is not a number (ValueError)
get_current_index(text) == IF IsNumber(text) THEN int(text) ELSE 0

\* ------------------------------------------------------------ file values
Absent == [kind |-> "absent"]
Partial == [kind |-> "partial"]              \* opened for writing, dump not finished
Json(v) == [kind |-> "json", val |-> v]      \* a complete JSON document
Corrupt == [kind |-> "corrupt"]              \* a result file json.load rejects

OkPayload == [ok |-> TRUE]
ErrPayload == [error |-> "oom"]
Payloads == {OkPayload, ErrPayload}
None == [none |-> TRUE]                      \* Python None

\* a response that never looks for the error field
HasError_Never(result) == FALSE

\* "error" in result
HasError(result) == "error" \in DOMAIN result

\* ---------------------------------------------------------- request bodies
Dict(items) == [t |-> "dict", items |-> items]
PyNone == [t |-> "none"]
Bodies == { [has |-> FALSE, custom_params |-> PyNone],
            [has |-> TRUE, custom_params |-> Dict({})],
            [has |-> TRUE, custom_params |-> Dict({<<"x", 1>>})] }

\* request_data.get("custom_params")
GetCustomParams(body) == IF body.has THEN body.custom_params ELSE PyNone

\* a test for presence (is not None) in place of the truth value
Truthy_NotNone(v) == v.t = "dict"

\* truth value of a Python object: None and the empty dict are false
Truthy(v) == v.t = "dict" /\ v.items # {}

Keys(v) == {kv[1] : kv \in v.items}

\* the bound test with > in place of >=
AllGenerated_Gt(current_index) == current_index > get_total_samples

\* a coordinator that never refuses an index
AllGenerated_Never(current_index) == FALSE

\* line 94: no sample is left to assign
AllGenerated(current_index) == current_index >= get_total_samples

\* the index update done for every generation
IsSequential_Always(current_index) == TRUE

\* line 134: only a sequential generation updates the index
IsSequential(current_index) == current_index # CUSTOM

\* the index written back unchanged, and written back one too far
NextIndex_Same(current_index) == current_index
NextIndex_Skip(current_index) == current_index + 2

\* line 135: the index written back after a result was consumed
NextIndex(current_index) == current_index + 1

\* result_file_path
ResultPath(current_index) == current_index
Paths == {CUSTOM} \cup (0..(TotalSamples - 1))

\* ------------------------------------------------------------- responses
AllGeneratedError(i) == [error |-> "All samples generated", index |-> i]
MissingFields == [error |-> "Missing required fields"]
TriggerFailed == [error |-> "Failed to trigger generation"]
ProcessingError == [error |-> "Error processing result"]
TimeoutError == [error |-> "Timeout waiting for video generation"]

VARIABLES state_file, trigger_tmp, trigger_file, result_files, shutdown_file,
          up, req, worker

vars == <<state_file, trigger_tmp, trigger_file, result_files, shutdown_file,
          up, req, worker>>

Running == up = "running"

\* the Cursor: what get_current_index reads from the state file
Cursor == get_current_index(state_file)

IdleReq == [pc |-> "idle", body |-> [has |-> FALSE, custom_params |-> PyNone],
            current_index |-> NoIndex, trigger_data |-> None, elapsed |-> 0,
            result |-> None, status |-> 0, response |-> None,
            ops |-> {}, failed |-> {}, parses |-> 0]

NoJob == [busy |-> FALSE, alive |-> TRUE, index |-> NoIndex]

Init == /\ state_file = str(0)
        /\ trigger_tmp = Absent
        /\ trigger_file = Absent
        /\ result_files = [p \in Paths |-> Absent]
        /\ shutdown_file = FALSE
        /\ up = "running"
        /\ req = [r \in Reqs |-> IdleReq]
        /\ worker = NoJob

\* ------------------------------------------------------ handler plumbing
\* the handler of thread r goes on with local state q
Continue(r, q) == req' = [req EXCEPT ![r] = q]

\* return jsonify(response), status: the locals of the call are gone
Return(r, q, status, response) ==
    req' = [req EXCEPT ![r] = [q EXCEPT !.pc = "done", !.status = status,
                                        !.response = response,
                                        !.body = IdleReq.body, !.trigger_data = None,
                                        !.result = None, !.elapsed = 0]]

Note(q, op) == [q EXCEPT !.ops = @ \cup {op}]
Failed(q, op) == [q EXCEPT !.failed = @ \cup {op}]

\* ----------------------------------------------- generate_next, lines 62-98
Begin(r, body) ==
    /\ Running
    /\ req[r].pc \in {"idle", "done"}
    /\ LET custom_params == GetCustomParams(body)
           q0 == [IdleReq EXCEPT !.body = body]
       IN IF Truthy(custom_params)
          THEN LET missing_fields == {f \in required_fields : f \notin Keys(custom_params)}
                   trigger_data == [index |-> CUSTOM, custom_params |-> custom_params]
               IN IF missing_fields # {}
                  THEN Return(r, q0, 400, MissingFields)
                  ELSE Continue(r, [q0 EXCEPT !.current_index = CUSTOM,
                                              !.trigger_data = trigger_data,
                                              !.pc = "open_tmp"])
          ELSE LET current_index == get_current_index(state_file)
                   q1 == Note([q0 EXCEPT !.current_index = current_index], "read_state")
               IN IF AllGenerated(current_index)
                  THEN Return(r, q1, 400, AllGeneratedError(current_index))
                  ELSE Continue(r, [q1 EXCEPT !.trigger_data = [index |-> current_index],
                                              !.pc = "open_tmp"])
    /\ UNCHANGED <<state_file, trigger_tmp, trigger_file, result_files,
                   shutdown_file, up, worker>>

\* ---------------------------------------------- atomic publish, lines 100-112
\* the descriptor opened at the canonical path instead of the temporary one
OpenTmp_Direct(r, ok) ==
    /\ Running /\ req[r].pc = "open_tmp"
    /\ IF ok
       THEN /\ trigger_file' = Partial
            /\ Continue(r, [Note(req[r], "open_tmp") EXCEPT !.pc = "dump_tmp"])
       ELSE /\ UNCHANGED trigger_file
            /\ Return(r, Failed(req[r], "open_tmp"), 500, TriggerFailed)
    /\ UNCHANGED <<state_file, trigger_tmp, result_files, shutdown_file, up, worker>>

\* open(trigger_tmp, 'w'): creates or truncates the temporary file
OpenTmp(r, ok) ==
    /\ Running /\ req[r].pc = "open_tmp"
    /\ IF ok
       THEN /\ trigger_tmp' = Partial
            /\ Continue(r, [Note(req[r], "open_tmp") EXCEPT !.pc = "dump_tmp"])
       ELSE /\ UNCHANGED trigger_tmp
            /\ Return(r, Failed(req[r], "open_tmp"), 500, TriggerFailed)
    /\ UNCHANGED <<state_file, trigger_file, result_files, shutdown_file, up, worker>>

\* A write through a descriptor whose file another thread has meanwhile renamed
\* onto the trigger path (or whose file the worker has unlinked): the bytes go
\* to that file, not to the temporary path, which stays absent.  The trigger
\* path, if it still names that file, ends up with this thread's data, with a
\* mix of both descriptors, or is not affected when it names another file.
Renamed(file, data) ==
    IF file = Absent THEN {Absent} ELSE {file, Json(data), Partial}

\* json.dump(trigger_data, f) and the close of the with block
DumpTmp(r, ok) ==
    /\ Running /\ req[r].pc = "dump_tmp"
    /\ IF ok
       THEN /\ IF trigger_tmp # Absent
               THEN /\ trigger_tmp' = Json(req[r].trigger_data)
                    /\ UNCHANGED trigger_file
               ELSE /\ UNCHANGED trigger_tmp
                    /\ trigger_file' \in Renamed(trigger_file, req[r].trigger_data)
            /\ Continue(r, [Note(req[r], "dump_tmp") EXCEPT !.pc = "replace"])
       ELSE /\ UNCHANGED <<trigger_tmp, trigger_file>>
            /\ Return(r, Failed(req[r], "dump_tmp"), 500, TriggerFailed)
    /\ UNCHANGED <<state_file, result_files, shutdown_file, up, worker>>

\* a failed rename that is logged and not returned: the wait loop is entered
Replace_Swallow(r, ok) ==
    /\ Running /\ req[r].pc = "replace"
    /\ IF ok /\ trigger_tmp # Absent
       THEN /\ trigger_file' = trigger_tmp
            /\ trigger_tmp' = Absent
            /\ Continue(r, [Note(req[r], "replace") EXCEPT !.pc = "poll", !.elapsed = 0])
       ELSE /\ UNCHANGED <<trigger_file, trigger_tmp>>
            /\ Continue(r, [Failed(req[r], "replace") EXCEPT !.pc = "poll", !.elapsed = 0])
    /\ UNCHANGED <<state_file, result_files, shutdown_file, up, worker>>

\* os.replace(trigger_tmp, TRIGGER_FILE), then start_time = time.time()
Replace(r, ok) ==
    /\ Running /\ req[r].pc = "replace"
    /\ IF ok /\ trigger_tmp # Absent
       THEN /\ trigger_file' = trigger_tmp
            /\ trigger_tmp' = Absent
            /\ Continue(r, [Note(req[r], "replace") EXCEPT !.pc = "poll", !.elapsed = 0])
       ELSE /\ UNCHANGED <<trigger_file, trigger_tmp>>
            /\ Return(r, Failed(req[r], "replace"), 500, TriggerFailed)
    /\ UNCHANGED <<state_file, result_files, shutdown_file, up, worker>>

\* ------------------------------------------------- wait loop, lines 121-154
\* a wait loop whose clock never advances
Poll_NoClock(r) ==
    /\ Running /\ req[r].pc = "poll"
    /\ LET path == ResultPath(req[r].current_index) IN
       IF req[r].elapsed < MAX_WAIT_TIME
       THEN IF result_files[path] # Absent
            THEN Continue(r, [Note(req[r], "exists_result") EXCEPT !.pc = "load"])
            ELSE Continue(r, Note(req[r], "exists_result"))
       ELSE Continue(r, [req[r] EXCEPT !.pc = "timeout"])
    /\ UNCHANGED <<state_file, trigger_tmp, trigger_file, result_files,
                   shutdown_file, up, worker>>

\* a wait loop that sleeps one interval before it first looks for the result
Poll_SleepFirst(r) ==
    /\ Running /\ req[r].pc = "poll"
    /\ LET path == ResultPath(req[r].current_index) IN
       IF req[r].elapsed < MAX_WAIT_TIME
       THEN IF result_files[path] # Absent /\ req[r].elapsed > 0
            THEN Continue(r, [Note(req[r], "exists_result") EXCEPT !.pc = "load"])
            ELSE Continue(r, [Note(req[r], "exists_result") EXCEPT
                                  !.elapsed = @ + CHECK_INTERVAL])
       ELSE Continue(r, [req[r] EXCEPT !.pc = "timeout"])
    /\ UNCHANGED <<state_file, trigger_tmp, trigger_file, result_files,
                   shutdown_file, up, worker>>

\* one evaluation of the while condition and of os.path.exists
Poll(r) ==
    /\ Running /\ req[r].pc = "poll"
    /\ LET path == ResultPath(req[r].current_index) IN
       IF req[r].elapsed < MAX_WAIT_TIME
       THEN IF result_files[path] # Absent
            THEN Continue(r, [Note(req[r], "exists_result") EXCEPT !.pc = "load"])
            ELSE Continue(r, [Note(req[r], "exists_result") EXCEPT
                                  !.elapsed = @ + CHECK_INTERVAL])
       ELSE Continue(r, [req[r] EXCEPT !.pc = "timeout"])
    /\ UNCHANGED <<state_file, trigger_tmp, trigger_file, result_files,
                   shutdown_file, up, worker>>

\* the index advanced as soon as the result is read, before the delete
Load_AdvanceFirst(r) ==
    /\ Running /\ req[r].pc = "load"
    /\ LET f == result_files[ResultPath(req[r].current_index)]
           q == [Note(req[r], "read_result") EXCEPT !.parses = @ + 1]
       IN IF f.kind = "json"
          THEN /\ Continue(r, [q EXCEPT !.result = f.val, !.pc = "remove"])
               /\ state_file' = IF IsSequential(req[r].current_index)
                                THEN str(NextIndex(req[r].current_index))
                                ELSE state_file
          ELSE /\ Continue(r, [Failed(q, "read_result") EXCEPT !.pc = "cleanup"])
               /\ UNCHANGED state_file
    /\ UNCHANGED <<trigger_tmp, trigger_file, result_files, shutdown_file, up, worker>>

\* open(result_file_path) and json.load
Load(r) ==
    /\ Running /\ req[r].pc = "load"
    /\ LET f == result_files[ResultPath(req[r].current_index)]
           q == [Note(req[r], "read_result") EXCEPT !.parses = @ + 1]
       IN IF f.kind = "json"
          THEN Continue(r, [q EXCEPT !.result = f.val, !.pc = "remove"])
          ELSE Continue(r, [Failed(q, "read_result") EXCEPT !.pc = "cleanup"])
    /\ UNCHANGED <<state_file, trigger_tmp, trigger_file, result_files,
                   shutdown_file, up, worker>>

\* a consumption that forgets the os.remove
Remove_NoDelete(r, ok) ==
    /\ Running /\ req[r].pc = "remove"
    /\ Continue(r, [Note(req[r], "remove_result") EXCEPT
           !.pc = IF IsSequential(req[r].current_index) THEN "update" ELSE "respond"])
    /\ UNCHANGED <<state_file, trigger_tmp, trigger_file, result_files,
                   shutdown_file, up, worker>>

\* os.remove(result_file_path)
Remove(r, ok) ==
    /\ Running /\ req[r].pc = "remove"
    /\ LET path == ResultPath(req[r].current_index) IN
       IF ok /\ result_files[path] # Absent
       THEN /\ result_files' = [result_files EXCEPT ![path] = Absent]
            /\ Continue(r, [Note(req[r], "remove_result") EXCEPT
                   !.pc = IF IsSequential(req[r].current_index) THEN "update"
                                                                ELSE "respond"])
       ELSE /\ UNCHANGED result_files
            /\ Continue(r, [Failed(req[r], "remove_result") EXCEPT !.pc = "cleanup"])
    /\ UNCHANGED <<state_file, trigger_tmp, trigger_file, shutdown_file, up, worker>>

\* update_current_index(current_index + 1).  open(STATE_FILE, 'w') truncates
\* the file before anything is written, so the call ends in one of three ways:
\* "written", "open_failed" (file untouched, exception raised) or
\* "write_failed" (file left empty, exception raised).
UpdateOutcomes == {"written", "open_failed", "write_failed"}

update_current_index(text, new_index, outcome) ==
    CASE outcome = "written" -> str(new_index)
      [] outcome = "open_failed" -> text
      [] outcome = "write_failed" -> <<>>

Update(r, outcome) ==
    /\ Running /\ req[r].pc = "update"
    /\ state_file' = update_current_index(state_file, NextIndex(req[r].current_index), outcome)
    /\ IF outcome = "written"
       THEN Continue(r, [Note(req[r], "write_state") EXCEPT !.pc = "respond"])
       ELSE Continue(r, [Failed(req[r], "write_state") EXCEPT !.pc = "cleanup"])
    /\ UNCHANGED <<trigger_tmp, trigger_file, result_files, shutdown_file, up, worker>>

\* lines 139-141
Respond(r) ==
    /\ Running /\ req[r].pc = "respond"
    /\ IF HasError(req[r].result)
       THEN Return(r, req[r], 500, req[r].result)
       ELSE Return(r, req[r], 200, req[r].result)
    /\ UNCHANGED <<state_file, trigger_tmp, trigger_file, result_files,
                   shutdown_file, up, worker>>

\* an except block that leaves the unreadable file in place
Cleanup_Keep(r, ok) ==
    /\ Running /\ req[r].pc = "cleanup"
    /\ Return(r, req[r], 500, ProcessingError)
    /\ UNCHANGED <<state_file, trigger_tmp, trigger_file, result_files,
                   shutdown_file, up, worker>>

\* the except block, lines 143-152
Cleanup(r, ok) ==
    /\ Running /\ req[r].pc = "cleanup"
    /\ LET path == ResultPath(req[r].current_index) IN
       IF result_files[path] # Absent
       THEN IF ok
            THEN /\ result_files' = [result_files EXCEPT ![path] = Absent]
                 /\ Return(r, Note(req[r], "cleanup_remove"), 500, ProcessingError)
            ELSE /\ UNCHANGED result_files
                 /\ Return(r, Failed(req[r], "cleanup_remove"), 500, ProcessingError)
       ELSE /\ UNCHANGED result_files
            /\ Return(r, req[r], 500, ProcessingError)
    /\ UNCHANGED <<state_file, trigger_tmp, trigger_file, shutdown_file, up, worker>>

\* a timeout that counts the index as consumed
Timeout_Advance(r, ok) ==
    /\ Running /\ req[r].pc = "timeout"
    /\ state_file' = IF IsSequential(req[r].current_index)
                     THEN str(NextIndex(req[r].current_index)) ELSE state_file
    /\ IF trigger_file # Absent /\ ok
       THEN /\ trigger_file' = Absent
            /\ Return(r, Note(req[r], "remove_trigger"), 500, TimeoutError)
       ELSE /\ UNCHANGED trigger_file
            /\ Return(r, req[r], 500, TimeoutError)
    /\ UNCHANGED <<trigger_tmp, result_files, shutdown_file, up, worker>>

\* a timeout that leaves the trigger file behind
Timeout_KeepTrigger(r, ok) ==
    /\ Running /\ req[r].pc = "timeout"
    /\ Return(r, req[r], 500, TimeoutError)
    /\ UNCHANGED <<state_file, trigger_tmp, trigger_file, result_files,
                   shutdown_file, up, worker>>

\* a timeout that removes the trigger only when it is this request's own
Timeout_OwnOnly(r, ok) ==
    /\ Running /\ req[r].pc = "timeout"
    /\ IF trigger_file = Json(req[r].trigger_data)
       THEN IF ok
            THEN /\ trigger_file' = Absent
                 /\ Return(r, Note(req[r], "remove_trigger"), 500, TimeoutError)
            ELSE /\ UNCHANGED trigger_file
                 /\ Return(r, Failed(req[r], "remove_trigger"), 500, TimeoutError)
       ELSE /\ UNCHANGED trigger_file
            /\ Return(r, req[r], 500, TimeoutError)
    /\ UNCHANGED <<state_file, trigger_tmp, result_files, shutdown_file, up, worker>>

\* timeout handling, lines 156-166
Timeout(r, ok) ==
    /\ Running /\ req[r].pc = "timeout"
    /\ IF trigger_file # Absent
       THEN IF ok
            THEN /\ trigger_file' = Absent
                 /\ Return(r, Note(req[r], "remove_trigger"), 500, TimeoutError)
            ELSE /\ UNCHANGED trigger_file
                 /\ Return(r, Failed(req[r], "remove_trigger"), 500, TimeoutError)
       ELSE /\ UNCHANGED trigger_file
            /\ Return(r, req[r], 500, TimeoutError)
    /\ UNCHANGED <<state_file, trigger_tmp, result_files, shutdown_file, up, worker>>

\* ------------------------------------------------------ process lifecycle
\* SIGTERM or SIGINT is delivered (handlers registered at lines 182-183): the
\* interpreter enters signal_handler and the request being served stops
Signal ==
    /\ Running
    /\ up' = "signalled"
    /\ req' = [r \in Reqs |-> IdleReq]
    /\ UNCHANGED <<state_file, trigger_tmp, trigger_file, result_files,
                   shutdown_file, worker>>

\* a handler whose failed write escapes: the process goes on serving
signal_handler_Uncaught(ok) ==
    /\ up = "signalled"
    /\ shutdown_file' = (shutdown_file \/ ok)
    /\ up' = IF ok THEN "exited" ELSE "running"
    /\ UNCHANGED <<state_file, trigger_tmp, trigger_file, result_files, req, worker>>

\* signal_handler: best-effort write of the shutdown file, then sys.exit(0)
signal_handler(ok) ==
    /\ up = "signalled"
    /\ shutdown_file' = (shutdown_file \/ ok)
    /\ up' = "exited"
    /\ UNCHANGED <<state_file, trigger_tmp, trigger_file, result_files, req, worker>>

\* the process is killed without running any handler
Crash ==
    /\ Running
    /\ up' = "killed"
    /\ req' = [r \in Reqs |-> IdleReq]
    /\ UNCHANGED <<state_file, trigger_tmp, trigger_file, result_files,
                   shutdown_file, worker>>

\* a killed process is started again; module start-up, lines 22-28, finds
\* the state file and leaves it alone.  A process that exited on a signal
\* was stopped on purpose and stays down.
Start ==
    /\ up = "killed"
    /\ up' = "running"
    /\ UNCHANGED <<state_file, trigger_tmp, trigger_file, result_files,
                   shutdown_file, req, worker>>

\* ------------------------------------------------------------- the worker
\* the worker takes the published descriptor off the trigger path
WorkerPickup ==
    /\ worker.alive /\ ~worker.busy
    /\ trigger_file.kind = "json"
    /\ worker' = [worker EXCEPT !.busy = TRUE, !.index = trigger_file.val.index]
    /\ trigger_file' = Absent
    /\ UNCHANGED <<state_file, trigger_tmp, result_files, shutdown_file, up, req>>

\* the worker writes the result artifact of the job it took
WorkerWrite(content) ==
    /\ worker.alive /\ worker.busy
    /\ result_files' = [result_files EXCEPT ![ResultPath(worker.index)] = content]
    /\ worker' = [worker EXCEPT !.busy = FALSE, !.index = NoIndex]
    /\ UNCHANGED <<state_file, trigger_tmp, trigger_file, shutdown_file, up, req>>

\* the worker sees the shutdown marker and exits
WorkerExit ==
    /\ worker.alive /\ shutdown_file
    /\ worker' = [busy |-> FALSE, alive |-> FALSE, index |-> NoIndex]
    /\ UNCHANGED <<state_file, trigger_tmp, trigger_file, result_files,
                   shutdown_file, up, req>>

ResultContents == {Json(p) : p \in Payloads} \cup {Corrupt}

Worker == \/ WorkerPickup
          \/ \E content \in ResultContents : WorkerWrite(content)
          \/ WorkerExit

\* ---------------------------------------------------------- specifications
Handler(r) == \/ \E ok \in BOOLEAN : OpenTmp(r, ok)
              \/ \E ok \in BOOLEAN : DumpTmp(r, ok)
              \/ \E ok \in BOOLEAN : Replace(r, ok)
              \/ Poll(r)
              \/ Load(r)
              \/ \E ok \in BOOLEAN : Remove(r, ok)
              \/ \E outcome \in UpdateOutcomes : Update(r, outcome)
              \/ Respond(r)
              \/ \E ok \in BOOLEAN : Cleanup(r, ok)
              \/ \E ok \in BOOLEAN : Timeout(r, ok)

Lifecycle == \/ Signal
             \/ \E ok \in BOOLEAN : signal_handler(ok)
             \/ Crash
             \/ Start

\* requests are serialized: one thread handles them, one in flight at a time
Next == \/ \E body \in Bodies : Begin(MainThread, body)
        \/ Handler(MainThread)
        \/ Lifecycle
        \/ Worker

Spec == Init /\ [][Next]_vars

\* serialized requests on a coordinator that is not stopped and whose handler
\* thread keeps being scheduled; the worker is free to do nothing at all
NextLive == \/ \E body \in Bodies : Begin(MainThread, body)
            \/ Handler(MainThread)
            \/ WorkerPickup
            \/ \E content \in ResultContents : WorkerWrite(content)

SpecLive == Init /\ [][NextLive]_vars /\ WF_vars(Handler(MainThread))

\* the steps of a handler none of whose file operations is refused by the
\* operating system; an operation on a file that is not there still fails
Steps(r) == \/ OpenTmp(r, TRUE)
            \/ DumpTmp(r, TRUE)
            \/ Replace(r, TRUE)
            \/ Poll(r)
            \/ Load(r)
            \/ Remove(r, TRUE)
            \/ Update(r, "written")
            \/ Respond(r)
            \/ Cleanup(r, TRUE)
            \/ Timeout(r, TRUE)

\* the HTTP layer dispatches requests concurrently
\* the requests sent concurrently: one without custom_params, one with
Posts == { [has |-> FALSE, custom_params |-> PyNone],
           [has |-> TRUE, custom_params |-> Dict({<<"x", 1>>})] }

\* the artifacts of successful generations, told apart by what they hold
MaxArtifacts == 2
Artifact(id) == Json([ok |-> TRUE, id |-> id])

\* no file, no handler and no response still holds that artifact
Fresh(content) ==
    /\ \A p \in Paths : result_files[p] # content
    /\ \A r \in Reqs : req[r].result # content.val /\ req[r].response # content.val

\* the worker finishes its job with an artifact that is unlike every one
\* still around
WorkerDeliver(id) == Fresh(Artifact(id)) /\ WorkerWrite(Artifact(id))

NextConc == \/ \E r \in Reqs, body \in Posts : Begin(r, body)
            \/ \E r \in Reqs : Steps(r)
            \/ WorkerPickup
            \/ \E id \in 1..MaxArtifacts : WorkerDeliver(id)

SpecConc == Init /\ [][NextConc]_vars

\* ------------------------------------------------------------------ claims
\* the call of generate_next on the thread that serves serialized requests
R == req[MainThread]

\* the step in which that call returns its response
Returns == R.pc # "done" /\ R'.pc = "done"

\* the step in which a new call of generate_next starts
Begins == R.pc \in {"idle", "done"} /\ R' # R /\ Running'

\* C1 as stated: a sequential request that starts with Cursor = i < bound
\* and returns the success payload leaves Cursor = i+1, result_i absent and
\* the trigger artifact absent.
C1_Original ==
    [][(Returns /\ R'.status = 200 /\ R.current_index # CUSTOM)
         => /\ Cursor' = R.current_index + 1
            /\ result_files'[ResultPath(R.current_index)] = Absent
            /\ trigger_file' = Absent]_vars

\* C1 as amended: a sequential request that starts with Cursor = i < bound
\* and returns 200 leaves Cursor = i+1 and has deleted result_i itself; it
\* has not deleted the trigger artifact, which only the worker takes away
\* on this path.
C1_RoundTrip ==
    [][(Returns /\ R'.status = 200 /\ R.current_index # CUSTOM)
         => /\ R.current_index \in 0..(get_total_samples - 1)
            /\ Cursor' = R.current_index + 1
            /\ {"read_result", "remove_result", "write_state"} \subseteq R'.ops
            /\ "remove_trigger" \notin R'.ops]_vars

C1_Witness ==
    /\ R.pc = "done" /\ R.status = 200 /\ R.response = OkPayload
    /\ R.current_index # CUSTOM
    /\ Cursor = R.current_index + 1
    /\ result_files[ResultPath(R.current_index)] = Absent

\* C2 as stated: the Cursor never decreases, and every change is an increase
\* by one made after a successful (non-error) result for the index equal to
\* the old Cursor was consumed.
C2_Original ==
    [][Cursor' # Cursor
         => /\ Cursor' = Cursor + 1
            /\ R.pc = "update" /\ R.current_index = Cursor
            /\ R.result \in Payloads /\ "error" \notin DOMAIN R.result
            /\ "remove_result" \in R.ops]_vars

\* C2 as amended: every change of the Cursor is made by a sequential request
\* for the index equal to the old Cursor after it read and deleted a parsed
\* result (success payload or worker-reported error); the change is an
\* increase by one, except that a write that fails after truncating the
\* state file leaves the Cursor reading 0.
C2_CursorSteps ==
    [][Cursor' # Cursor
         => /\ R.pc = "update" /\ R.current_index = Cursor
            /\ R.result \in Payloads
            /\ {"read_result", "remove_result"} \subseteq R.ops
            /\ \/ Cursor' = Cursor + 1
               \/ Cursor' = 0 /\ "write_state" \in R'.failed]_vars

C2_Witness ==
    /\ R.pc = "respond" /\ R.result = ErrPayload
    /\ R.current_index # CUSTOM
    /\ Cursor = R.current_index + 1

\* C3: once a sequential request has returned the timeout error the Cursor
\* still equals the index of that request, and the sequential request that
\* starts next builds its descriptor for the same index.
C3_TimeoutRetry ==
    [][(R.pc = "done" /\ R.response = TimeoutError /\ R.current_index # CUSTOM)
         => /\ Cursor = R.current_index
            /\ (Begins /\ R'.pc = "open_tmp" /\ R'.current_index # CUSTOM)
                 => R'.trigger_data = [index |-> R.current_index]]_vars

C3_Witness ==
    /\ R.pc = "done" /\ R.status = 500 /\ R.response = TimeoutError
    /\ R.current_index # CUSTOM
    /\ "exists_result" \in R.ops
    /\ Cursor = R.current_index

\* C4: the canonical trigger path is always absent or holds one complete
\* descriptor, also after a crash in the middle of publishing; a descriptor
\* appears on it only by the rename of the completely written temporary file.
C4_AtomicPublish ==
    /\ [](trigger_file.kind \in {"absent", "json"})
    /\ [][(trigger_file' # trigger_file /\ trigger_file' # Absent)
            => /\ R.pc = "replace" /\ R'.pc = "poll"
               /\ trigger_tmp = Json(R.trigger_data)
               /\ trigger_file' = trigger_tmp
               /\ trigger_tmp' = Absent]_vars

C4_Witness ==
    /\ up = "killed"
    /\ trigger_tmp = Partial
    /\ trigger_file.kind \in {"absent", "json"}

\* C5: no step of a custom-mode request reads or writes the state file,
\* whatever the outcome of the request.
C5_CustomLeavesCursor ==
    [][R'.current_index = CUSTOM
         => /\ state_file' = state_file
            /\ R'.ops \cap {"read_state", "write_state"} = {}]_vars

C5_Witness ==
    /\ R.pc = "done" /\ R.current_index = CUSTOM
    /\ R.status = 500 /\ R.response = ErrPayload
    /\ "remove_result" \in R.ops
    /\ Cursor > 0

\* C6 as stated: a request is handled in custom mode exactly when its body
\* has a custom_params field, the empty mapping included.
C6_Original ==
    R.pc \notin {"idle", "done"}
      => IF R.body.has
         THEN /\ R.current_index = CUSTOM
              /\ R.trigger_data = [index |-> CUSTOM, custom_params |-> R.body.custom_params]
              /\ "read_state" \notin R.ops
         ELSE /\ R.current_index \in 0..(get_total_samples - 1)
              /\ R.trigger_data = [index |-> R.current_index]

\* C6 as amended: a request is handled in custom mode (descriptor with index
\* -1 and the custom_params, no read of the Cursor and so no bound check,
\* result awaited at result_custom) exactly when its body has a non-empty
\* custom_params; a body without custom_params or with an empty one is
\* handled in sequential mode.
C6_Mode ==
    R.pc \notin {"idle", "done"}
      => IF R.body.has /\ R.body.custom_params.items # {}
         THEN /\ R.current_index = CUSTOM
              /\ ResultPath(R.current_index) = CUSTOM
              /\ R.trigger_data = [index |-> CUSTOM, custom_params |-> R.body.custom_params]
              /\ "read_state" \notin R.ops
         ELSE /\ R.current_index \in 0..(get_total_samples - 1)
              /\ ResultPath(R.current_index) = R.current_index
              /\ R.trigger_data = [index |-> R.current_index]
              /\ "read_state" \in R.ops

C6_Witness ==
    /\ R.pc = "poll"
    /\ R.body = [has |-> TRUE, custom_params |-> Dict({<<"x", 1>>})]
    /\ trigger_file = Json([index |-> CUSTOM, custom_params |-> Dict({<<"x", 1>>})])
    /\ Cursor >= get_total_samples

\* C7: a sequential request that starts while Cursor >= bound returns 400
\* with the current index in the same step, having only read the state file:
\* no artifact is written, read or deleted and the Cursor keeps its value.
C7_BoundReached ==
    [][(Begins /\ "read_state" \in R'.ops /\ Cursor >= get_total_samples)
         => /\ R'.pc = "done" /\ R'.status = 400
            /\ R'.response = AllGeneratedError(Cursor)
            /\ R'.ops = {"read_state"} /\ R'.failed = {}
            /\ UNCHANGED <<state_file, trigger_tmp, trigger_file, result_files,
                           shutdown_file>>]_vars

C7_Witness ==
    /\ R.pc = "done" /\ R.status = 400
    /\ R.response = AllGeneratedError(get_total_samples)
    /\ Cursor = get_total_samples

\* C8: a request that parsed a result with an error field, and whose file
\* operations all succeeded, returns 500 with that payload, has deleted the
\* result artifact, has advanced the Cursor from i to i+1 in sequential mode
\* and not written it in custom mode; afterwards it publishes nothing again.
C8_WorkerError ==
    [][/\ (Returns /\ R.result = ErrPayload /\ R'.failed = {})
            => /\ R'.status = 500 /\ R'.response = ErrPayload
               /\ {"read_result", "remove_result"} \subseteq R'.ops
               /\ IF R.current_index # CUSTOM
                  THEN Cursor' = R.current_index + 1
                  ELSE "write_state" \notin R'.ops /\ state_file' = state_file
       /\ (R.pc = "done" /\ R.response = ErrPayload /\ R'.pc = "done")
            => /\ trigger_tmp' = trigger_tmp
               /\ trigger_file' \in {trigger_file, Absent}]_vars

C8_Witness ==
    /\ R.pc = "done" /\ R.status = 500 /\ R.response = ErrPayload
    /\ R.current_index # CUSTOM /\ R.failed = {}
    /\ Cursor = R.current_index + 1

\* C9: a request whose result artifact exists but does not parse returns 500
\* after one parse attempt, without writing the Cursor, and unless the
\* removal fails the artifact is absent when it returns.
C9_CorruptResult ==
    [][(Returns /\ "read_result" \in R.failed)
         => /\ R'.status = 500 /\ R'.response = ProcessingError
            /\ R'.parses = 1
            /\ "write_state" \notin R'.ops /\ state_file' = state_file
            /\ (R.current_index # CUSTOM => Cursor' = R.current_index)
            /\ ("cleanup_remove" \notin R'.failed
                  => result_files'[ResultPath(R.current_index)] = Absent)]_vars

C9_Witness ==
    /\ R.pc = "done" /\ R.status = 500 /\ R.response = ProcessingError
    /\ "read_result" \in R.failed
    /\ "cleanup_remove" \in R.ops
    /\ result_files[ResultPath(R.current_index)] = Absent

\* C10: a request that ran into the wait ceiling has returned 500 with the
\* timeout error, and unless the removal failed the canonical trigger path
\* is absent from its return on, so the worker cannot take a stale trigger.
C10_TimeoutCleansTrigger ==
    (R.pc = "done" /\ R.response = TimeoutError)
      => /\ R.status = 500
         /\ ("remove_trigger" \notin R.failed => trigger_file = Absent)

C10_Witness ==
    /\ R.pc = "done" /\ R.response = TimeoutError
    /\ "remove_trigger" \in R.ops
    /\ trigger_file = Absent
    /\ ~worker.busy

\* C11: a request whose write of the temporary descriptor or whose rename
\* fails returns 500 with the 'Failed to trigger generation' error in that
\* very step, never having entered the wait loop: it has not looked for, read
\* or deleted a result artifact, has not written the Cursor, and has not
\* changed the canonical trigger path.
C11_PublishError ==
    [][/\ (Returns /\ R'.failed \cap {"open_tmp", "dump_tmp", "replace"} # {})
            => /\ R.pc \in {"open_tmp", "dump_tmp", "replace"}
               /\ R'.status = 500 /\ R'.response = TriggerFailed
               /\ R'.ops \cap {"replace", "exists_result", "read_result",
                               "remove_result", "cleanup_remove", "write_state",
                               "remove_trigger"} = {}
               /\ UNCHANGED <<state_file, trigger_file, result_files>>
       /\ (R.failed \cap {"open_tmp", "dump_tmp", "replace"} # {}) => R.pc = "done"
       /\ (R.pc \in {"open_tmp", "dump_tmp"} /\ R' # R /\ Running')
            => trigger_file' = trigger_file]_vars

C11_Witness ==
    /\ R.pc = "done" /\ R.status = 500 /\ R.response = TriggerFailed
    /\ "replace" \in R.failed
    /\ trigger_tmp.kind = "json"
    /\ trigger_file = Absent

\* C12 as stated: result artifacts never accumulate: whenever no request is
\* in flight, no result artifact exists in the store.
C12_Original ==
    R.pc \in {"idle", "done"} => \A p \in Paths : result_files[p] = Absent

\* C12 as amended: a result artifact is deleted only by the request that
\* awaits its path, after that request has read the path (the delete that
\* follows a parse, or the delete of the except block), and a request that
\* goes on to deliver a payload has deleted the file at its path; but an
\* artifact the worker writes while no request awaits it stays in the store
\* for as long as no request is in flight.
C12_Consumption ==
    [][/\ \A p \in Paths :
            (result_files[p] # Absent /\ result_files'[p] = Absent)
               => /\ R.pc \in {"remove", "cleanup"}
                  /\ ResultPath(R.current_index) = p
                  /\ "read_result" \in R.ops
       /\ (R.pc = "remove" /\ R'.pc \in {"update", "respond"})
            => /\ result_files[ResultPath(R.current_index)] # Absent
               /\ result_files'[ResultPath(R.current_index)] = Absent
       /\ (Returns /\ R.pc = "respond") => "remove_result" \in R.ops
       /\ (R.pc \in {"idle", "done"} /\ R'.pc \in {"idle", "done"})
            => \A p \in Paths : result_files[p] # Absent => result_files'[p] # Absent
      ]_vars

C12_Witness ==
    /\ R.pc = "done" /\ R.response = TimeoutError
    /\ result_files[ResultPath(R.current_index)] # Absent
    /\ ~worker.busy

\* C13: once a termination signal is delivered the only thing the process
\* does is run signal_handler, which ends it whether or not the write of the
\* Shutdown Marker succeeded and whatever the worker is doing; the marker is
\* created only there, the worker is not touched, a terminated process stays
\* terminated, and a marker that exists exists in every later state.
C13_Shutdown ==
    [][/\ up = "signalled" => up' \in {"signalled", "exited"}
       /\ (up = "signalled" /\ up' = "exited")
            => /\ worker' = worker
               /\ UNCHANGED <<state_file, trigger_tmp, trigger_file, result_files>>
       /\ (shutdown_file' /\ ~shutdown_file) => (up = "signalled" /\ up' = "exited")
       /\ up = "exited" => (up' = "exited" /\ req' = req)
       /\ shutdown_file => shutdown_file'
      ]_vars

C13_Witness ==
    /\ up = "exited"
    /\ shutdown_file
    /\ worker.alive /\ worker.busy
    /\ trigger_tmp = Partial

\* C14: under fair scheduling of the handler every request that has published
\* its trigger returns, whatever the worker does; the wait loop moves only
\* from waiting to found and then to consumed or to the except block, or from
\* waiting to timed out; and a returned request carries exactly one of the
\* statuses 200, 400 and 500.
C14_Terminates ==
    /\ (R.pc = "poll") ~> (R.pc = "done")
    /\ [](R.pc = "done" => R.status \in {200, 400, 500})
    /\ [][/\ R.pc = "poll" => R'.pc \in {"poll", "load", "timeout"}
          /\ R.pc = "load" => R'.pc \in {"load", "remove", "cleanup"}
          /\ R.pc = "remove" => R'.pc \in {"remove", "update", "respond", "cleanup"}
          /\ R.pc = "update" => R'.pc \in {"update", "respond", "cleanup"}
          /\ R.pc = "respond" => R'.pc \in {"respond", "done"}
          /\ R.pc = "cleanup" => R'.pc \in {"cleanup", "done"}
          /\ R.pc = "timeout" => R'.pc \in {"timeout", "done"}
          /\ (R.pc = "poll" /\ R'.pc = "timeout") => R.elapsed >= MAX_WAIT_TIME
          /\ (R.pc = "poll" /\ R'.pc = "poll") => R'.elapsed >= R.elapsed
         ]_vars

C14_Witness ==
    /\ R.pc = "done" /\ R.status = 500 /\ R.response = TimeoutError
    /\ R.elapsed = 0 /\ "exists_result" \in R.ops
    /\ worker.busy

\* the step in which the process is killed or receives a termination signal
Stopped == Running /\ ~Running'

\* C15 as stated: if the coordinator crashes or is terminated at any point of
\* a sequential request, the Cursor in the resulting state is not greater
\* than the index of that request.
C15_Original ==
    [][(Stopped /\ R.pc \notin {"idle", "done"} /\ R.current_index # CUSTOM)
         => Cursor' <= R.current_index]_vars

\* C15 as amended: a sequential request reads the result, then deletes it,
\* then writes the Cursor.  If the coordinator is stopped before that write,
\* the Cursor in the resulting state is the index of the request (or 0 after
\* a write cut short), so the index is requested again; if it is stopped
\* after the write and before the response is returned, the Cursor is
\* already index + 1 although no client received the result.
C15_Order ==
    /\ []("write_state" \in R.ops => "remove_result" \in R.ops)
    /\ []("remove_result" \in R.ops => "read_result" \in R.ops)
    /\ [][(Stopped /\ R.pc \notin {"idle", "done"} /\ R.current_index # CUSTOM)
            => IF "write_state" \in R.ops
               THEN R.pc = "respond" /\ Cursor' = R.current_index + 1
               ELSE \/ Cursor' = R.current_index
                    \/ Cursor' = 0 /\ "write_state" \in R.failed]_vars

C15_Witness ==
    /\ R.pc = "update" /\ R.current_index # CUSTOM
    /\ {"read_result", "remove_result"} \subseteq R.ops
    /\ result_files[ResultPath(R.current_index)] = Absent
    /\ Cursor = R.current_index

\* C16: when the Cursor write of a sequential request for index i fails, the
\* request does not return 200 and does not deliver the payload it read, and
\* the Cursor stays at i.
C16_Original ==
    [][(Returns /\ "write_state" \in R'.failed)
         => /\ R'.status = 500
            /\ R'.response \notin Payloads
            /\ {"read_result", "remove_result"} \subseteq R'.ops
            /\ Cursor' = R.current_index]_vars

\* C17: a result artifact written after the request that awaited it gave up
\* stays in the store through the timeout, the start of the next request and
\* its publish; a request that reaches the wait loop with an artifact already
\* at its result path takes it at the first evaluation of the loop, reads
\* whatever that file holds as its own result, whether or not the worker has
\* taken the trigger this request published, and on a served response returns
\* that result with the Cursor one past its index in sequential mode.
C17_StaleResult ==
    [][/\ \A p \in Paths :
            (result_files[p] # Absent /\ R.pc \notin {"remove", "cleanup"})
               => result_files'[p] # Absent
       /\ (/\ R.pc = "poll" /\ R.elapsed = 0 /\ Running'
           /\ result_files[ResultPath(R.current_index)] # Absent
           /\ R' # R)
            => R'.pc = "load" /\ R'.elapsed = 0
       /\ (R.pc = "load" /\ R'.pc = "remove")
            => R'.result = result_files[ResultPath(R.current_index)].val
       /\ (Returns /\ R.pc = "respond" /\ R.elapsed = 0)
            => /\ R'.response = R.result
               /\ R.current_index # CUSTOM => Cursor' = R.current_index + 1
      ]_vars

C17_Witness ==
    /\ R.pc = "respond" /\ R.elapsed = 0
    /\ R.current_index # CUSTOM /\ Cursor = R.current_index + 1
    /\ R.result = OkPayload
    /\ trigger_file = Json(R.trigger_data)
    /\ ~worker.busy

\* the thread that is not r
Other(r) == CHOOSE o \in Reqs : o # r

\* C18: nothing serializes submissions.  A request that is accepted in
\* sequential mode takes the Cursor as its index whatever the other thread is
\* doing, a step of one handler never waits for or changes the other handler,
\* a successful rename puts the temporary file on the trigger path over
\* whatever descriptor is there, and a timeout removes whatever descriptor is
\* on the trigger path, its own or not.
C18_NoMutualExclusion ==
    [][\A r \in Reqs :
         /\ (req[r].pc \in {"idle", "done"} /\ req'[r].pc = "open_tmp"
               /\ req'[r].current_index # CUSTOM)
              => req'[r].current_index = Cursor
         /\ req'[r] # req[r] => req'[Other(r)] = req[Other(r)]
         /\ (req[r].pc = "replace" /\ req'[r].pc = "poll")
              => trigger_tmp # Absent /\ trigger_file' = trigger_tmp
         /\ (req[r].pc = "timeout" /\ req'[r].pc = "done")
              => trigger_file' = Absent
      ]_vars

\* both threads hold the same sequential index and both have published, one
\* descriptor is on the trigger path, and the worker has taken none
C18_Witness ==
    /\ \A r \in Reqs : req[r].pc = "poll" /\ "replace" \in req[r].ops
    /\ req[1].current_index = req[2].current_index
    /\ req[1].current_index = Cursor
    /\ trigger_file = Json(req[1].trigger_data)
    /\ ~worker.busy
    /\ \A p \in Paths : result_files[p] = Absent

\* a descriptor file that asks for a sequential index at or past the bound
PastBound(file) ==
    /\ file.kind = "json"
    /\ file.val.index # CUSTOM
    /\ file.val.index >= get_total_samples

\* C19: whatever the interleaving of the two handlers and the worker, the
\* Cursor read from the state file is within 0..bound; no handler holds, and
\* neither the temporary nor the trigger path carries, a sequential index at
\* or past the bound.
C19_CursorBound ==
    /\ Cursor \in 0..get_total_samples
    /\ ~PastBound(trigger_tmp) /\ ~PastBound(trigger_file)
    /\ \A r \in Reqs :
         req[r].pc \notin {"idle", "done"}
            => req[r].current_index \in {CUSTOM} \cup (0..(get_total_samples - 1))

\* the Cursor is at the bound and a handler that took the last index before
\* that is about to write the Cursor again
C19_Witness ==
    /\ Cursor = get_total_samples
    /\ \E r \in Reqs : /\ req[r].pc = "update"
                       /\ req[r].current_index = get_total_samples - 1
                       /\ req[Other(r)].response = AllGeneratedError(get_total_samples)

\* C20: of two concurrent requests, at most one is answered 200 with a given
\* result artifact, and a request whose delete of the artifact failed is
\* answered 500 "Error processing result" without having written the Cursor.
C20_Original ==
    /\ ~ /\ \A r \in Reqs : req[r].pc = "done" /\ req[r].status = 200
         /\ req[1].response = req[2].response
    /\ \A r \in Reqs :
         (req[r].pc = "done" /\ "remove_result" \in req[r].failed)
            => /\ req[r].status = 500
               /\ req[r].response = ProcessingError
               /\ "write_state" \notin req[r].ops
====
